---- MODULE Spec2Model ----
(***************************************************************************)
(* Model of src/absences_service.py: the /absences handler                 *)
(* (absences_endpoint), the refresh lock, the module-level cache and the   *)
(* five-step pipeline refresh_data, run by concurrent request threads.     *)
(*                                                                         *)
(* Each request thread executes absences_endpoint statement by statement;  *)
(* a thread's position is pc[t], named after the source line it is about   *)
(* to execute.  Wall-clock time (time.time()) is the variable clock, which *)
(* advances independently of the threads.                                  *)
(***************************************************************************)
EXTENDS Integers, Sequences, FiniteSets, TLC

\* ---------------------------------------------------------------- constants
REFRESH_INTERVAL == 1800

ERROR_BACKOFF == 300

\* ------------------------------------------------------------------- bounds
\* the wall clock is observed at the instants Epoch + a * ERROR_BACKOFF
\* + b * REFRESH_INTERVAL with a <= MaxShort and b <= MaxLong
MaxShort == 1

MaxLong == 1

\* the largest number of modules of a progress document
MaxModules == 3

\* the largest number of periods of an answer of the periods endpoint
MaxPeriods == 3

\* the dates of the periods and the current date range over 1..MaxDate
MaxDate == 2

\* the largest number of profiles of an academic-review answer
MaxProfiles == 2

\* request threads of the (threaded) Flask server
Threads == {"t1", "t2"}

\* time.time() when the process starts: any realistic epoch time exceeds
\* REFRESH_INTERVAL, so now - 0 > REFRESH_INTERVAL as in the running program
Epoch == REFRESH_INTERVAL + ERROR_BACKOFF

\* the instants at which the wall clock is observed
Times ==
    {Epoch + a * ERROR_BACKOFF + b * REFRESH_INTERVAL :
        a \in 0..MaxShort, b \in 0..MaxLong}

\* Python's None where a dict (a Snapshot, a response) is expected
None == [none |-> TRUE]

\* Python's None where a string is expected (a missing name, no exception)
NoStr == "None"

\* ----------------------------------------------------- binary64 arithmetic
\* Python's float is IEEE 754 binary64: every addition rounds its exact
\* result to 53 significant bits, so a sum depends on the order of its terms.
\* natural numbers of any size: limbs in base 2^15, least significant first,
\* no leading zero limb (zero is << >>)
Base == 32768

LimbBits == 15

Pow2(k) == IF k = 0 THEN 1 ELSE 2 ^ k

RECURSIVE LimbsOf(_)
LimbsOf(n) == IF n = 0 THEN << >> ELSE << n % Base >> \o LimbsOf(n \div Base)

RECURSIVE NatOf(_)
NatOf(a) == IF a = << >> THEN 0 ELSE a[1] + Base * NatOf(Tail(a))

RECURSIVE Trim(_)
Trim(a) ==
    IF a = << >> THEN a
    ELSE IF a[Len(a)] = 0 THEN Trim(SubSeq(a, 1, Len(a) - 1)) ELSE a

\* a + b + c
RECURSIVE AddLimbs(_, _, _)
AddLimbs(a, b, c) ==
    IF a = << >> /\ b = << >> THEN LimbsOf(c)
    ELSE LET x == IF a = << >> THEN 0 ELSE a[1]
             y == IF b = << >> THEN 0 ELSE b[1]
         IN  << (x + y + c) % Base >>
                \o AddLimbs(IF a = << >> THEN a ELSE Tail(a),
                            IF b = << >> THEN b ELSE Tail(b), (x + y + c) \div Base)

\* a * k + c, for 0 < k <= Base
RECURSIVE MulLimbs(_, _, _)
MulLimbs(a, k, c) ==
    IF a = << >> THEN LimbsOf(c)
    ELSE << (a[1] * k + c) % Base >> \o MulLimbs(Tail(a), k, (a[1] * k + c) \div Base)

\* the quotient limbs (most significant first) and the remainder of the
\* limbs a[1..i] divided by k, for 0 < k < Base
RECURSIVE DivLimbs(_, _, _)
DivLimbs(a, k, i) ==
    IF i = 0 THEN [q |-> << >>, r |-> 0]
    ELSE LET hi == DivLimbs(a, k, i - 1)
             n == hi.r * Base + a[Len(a) + 1 - i]
         IN  [q |-> Append(hi.q, n \div k), r |-> n % k]

Reverse(s) == [i \in 1..Len(s) |-> s[Len(s) + 1 - i]]

\* floor(a / k) and whether the division left a remainder
DivSmall(a, k) ==
    LET d == DivLimbs(a, k, Len(a))
    IN  [q |-> Trim(Reverse(d.q)), inexact |-> d.r # 0]

\* a * 2^s
ShiftLeft(a, s) ==
    IF a = << >> THEN a
    ELSE [i \in 1..(s \div LimbBits) |-> 0] \o MulLimbs(a, Pow2(s % LimbBits), 0)

\* floor(a / 2^s) and whether bits were lost
ShiftRight(a, s) ==
    LET whole == s \div LimbBits
        kept == IF whole >= Len(a) THEN << >> ELSE SubSeq(a, whole + 1, Len(a))
        lost == \E i \in 1..whole : i <= Len(a) /\ a[i] # 0
        d == DivSmall(kept, Pow2(s % LimbBits))
    IN  [q |-> d.q, inexact |-> lost \/ d.inexact]

\* the number of significant bits of a
BitLength(a) ==
    IF a = << >> THEN 0
    ELSE LimbBits * (Len(a) - 1)
           + (CHOOSE k \in 1..LimbBits : Pow2(k - 1) <= a[Len(a)] /\ a[Len(a)] < Pow2(k))

\* a / 2^s rounded to the nearest integer, a tie to the even one (s >= 1)
RoundHalfEven(a, s) ==
    LET t == ShiftRight(a, s - 1)
        q == ShiftRight(t.q, 1).q
        guard == t.q # << >> /\ t.q[1] % 2 = 1
        odd == q # << >> /\ q[1] % 2 = 1
    IN  IF guard /\ (t.inexact \/ odd) THEN AddLimbs(q, << >>, 1) ELSE q

\* a binary64 value m * 2^e with a mantissa m of exactly 53 bits; zero is
\* [m |-> << >>, e |-> 0].  The values of the model are far from the
\* subnormal and the overflow range
Zero == [m |-> << >>, e |-> 0]

\* the binary64 value nearest to a * 2^e (a tie to the even mantissa)
Round53(a, e) ==
    LET len == BitLength(a)
    IN  IF len = 0 THEN Zero
        ELSE IF len <= 53 THEN [m |-> ShiftLeft(a, 53 - len), e |-> e - (53 - len)]
        ELSE LET r == RoundHalfEven(a, len - 53)
             IN  IF BitLength(r) = 54
                 THEN [m |-> ShiftRight(r, 1).q, e |-> e + (len - 53) + 1]
                 ELSE [m |-> r, e |-> e + (len - 53)]

\* line 198: x + y in binary64
FloatAdd(x, y) ==
    IF x.m = << >> THEN y
    ELSE IF y.m = << >> THEN x
    ELSE LET lo == IF x.e < y.e THEN x.e ELSE y.e
         IN  Round53(AddLimbs(ShiftLeft(x.m, x.e - lo), ShiftLeft(y.m, y.e - lo), 0), lo)

\* line 191, float(absences), for the JSON numeral k / 1000: the binary64
\* value nearest to it
Float(k) ==
    LET d == DivSmall(ShiftLeft(LimbsOf(k), 75), 1000)
    IN  Round53(AddLimbs(MulLimbs(d.q, 2, 0), << >>, IF d.inexact THEN 1 ELSE 0), 0 - 76)

\* lines 204, 209: round(x, 2), in hundredths.  CPython rounds the exact
\* binary value of x to the nearest hundredth, a tie to the even one
Round2(x) ==
    IF x.m = << >> THEN 0 ELSE NatOf(RoundHalfEven(MulLimbs(x.m, 100, 0), 0 - x.e))


\* -------------------------------------------------- progress aggregation
\* an absence count is a JSON numeral in thousandths (3000 is 3.0); the
\* absences field is << >> when the module carries no count and << n >>
\* otherwise
Module(name, title, absences) ==
    [name |-> name, title |-> title, absences |-> absences]

\* the end-to-end example of the specification: Math 3, Math 1.5, Art 0
DocExample ==
    << Module("Math", NoStr, << 3000 >>), Module("Math", NoStr, << 1500 >>),
       Module("Art", NoStr, << 0 >>) >>

DocEmpty == << >>

\* modules, but none with a positive count
DocNoAbsences == << Module("Art", NoStr, << 0 >>), Module("Math", NoStr, << >>) >>

\* progress documents the upstream may answer with (their "modules" list)
Documents == {DocEmpty, DocNoAbsences, DocExample}

\* line 186: module.get("name") or nested studyPeriodModule.module.title
CourseOf(module) ==
    IF module.name # NoStr /\ module.name # "" THEN module.name ELSE module.title

\* line 187: module.get("absences", {}).get("absences", 0)
AbsencesOf(module) ==
    IF module.absences = << >> THEN 0 ELSE module.absences[1]

\* variant: a zero or missing count is kept (>= for the truth test and >)
RECURSIVE parse_progress_absences_NonNegative(_)
parse_progress_absences_NonNegative(modules) ==
    IF modules = << >> THEN << >>
    ELSE LET m == Head(modules)
             rest == parse_progress_absences_NonNegative(Tail(modules))
         IN  IF AbsencesOf(m) >= 0
             THEN << [course |-> CourseOf(m), value |-> Float(AbsencesOf(m))] >> \o rest
             ELSE rest

\* lines 183-193: keep the modules with a strictly positive count, in order
RECURSIVE parse_progress_absences(_)
parse_progress_absences(modules) ==
    IF modules = << >> THEN << >>
    ELSE LET m == Head(modules)
             rest == parse_progress_absences(Tail(modules))
         IN  IF AbsencesOf(m) # 0 /\ AbsencesOf(m) > 0
             THEN << [course |-> CourseOf(m), value |-> Float(AbsencesOf(m))] >> \o rest
             ELSE rest

\* lines 196-198: the dict `used` as the sequence of its items, in insertion
\* order; used[course] = used.get(course, 0) + value
RECURSIVE Used(_)
Used(absences) ==
    IF absences = << >> THEN << >>
    ELSE LET before == Used(SubSeq(absences, 1, Len(absences) - 1))
             a == absences[Len(absences)]
         IN  IF \E i \in DOMAIN before : before[i].course = a.course
             THEN [i \in DOMAIN before |->
                      IF before[i].course = a.course
                      THEN [course |-> a.course,
                            value |-> FloatAdd(before[i].value, a.value)]
                      ELSE before[i]]
             ELSE Append(before, [course |-> a.course, value |-> FloatAdd(Zero, a.value)])

\* line 209: sum(used.values()), the items added left to right from 0 (as
\* CPython up to 3.11 does; from 3.12 on sum() compensates the rounding
\* errors, which makes a difference only when an addition is inexact)
RECURSIVE SumValues(_)
SumValues(items) ==
    IF items = << >> THEN Zero
    ELSE FloatAdd(SumValues(SubSeq(items, 1, Len(items) - 1)), items[Len(items)].value)

\* lines 200-205: per_course[course] = {"used": round(used_val, 2)} for every
\* item of `used`
RECURSIVE PerCourse(_)
PerCourse(items) ==
    IF items = << >> THEN << >>
    ELSE LET last == items[Len(items)]
         IN  PerCourse(SubSeq(items, 1, Len(items) - 1))
                @@ (last.course :> [used |-> Round2(last.value)])

\* variant: no Snapshot is built when there is no absence at all
summarize_NoneWhenEmpty(absences, utcnow) ==
    IF absences = << >> THEN None
    ELSE [total_used |-> Round2(SumValues(Used(absences))),
          per_course |-> PerCourse(Used(absences)),
          last_updated |-> utcnow]

\* lines 195-212: the Snapshot, its numbers in hundredths; utcnow is the
\* wall clock when it is built
summarize(absences, utcnow) ==
    [total_used |-> Round2(SumValues(Used(absences))),
     per_course |-> PerCourse(Used(absences)),
     last_updated |-> utcnow]

\* -------------------------------------------------------------------- state
VARIABLES
    cache,            \* line 47: [data, last_fetch, last_error]
    refresh_lock,     \* line 48: TRUE while the Lock is held
    STUDY_PROFILE_ID, \* line 38: the override from the environment, or None
    clock,            \* wall-clock time
    pc,               \* pc[t]: the statement thread t executes next
    now,              \* now[t]: the local `now` of line 236
    exc,              \* exc[t]: the exception in flight in thread t, or None
    response,         \* the HTTP response sent by the step just taken, if any
    budget,           \* number of requests that may still arrive, or NoLimit
    upstream,         \* the JSON answered to a pipeline function studied alone
    returned          \* what that function returned or raised, once called

vars ==
    << cache, refresh_lock, STUDY_PROFILE_ID, clock, pc, now, exc, response, budget,
       upstream, returned >>

\* positions inside refresh_data(), lines 216-230, in execution order
PipelineSteps ==
    << "keycloak_login", "fetch_student_uuid", "fetch_study_profile_id",
       "fetch_current_period_id", "fetch_progress_json" >>

PipelinePcs == {PipelineSteps[i] : i \in DOMAIN PipelineSteps}

\* positions between a successful acquire (246) and the release (255)
HoldingPcs == PipelinePcs \cup {"L249", "L250", "L255"}

Holds(t) == pc[t] \in HoldingPcs

\* any number of requests may still arrive
NoLimit == 0 - 1

\* HTTP responses of the handler, tagged with the request thread they answer;
\* lines 241, 258: jsonify(cache["data"])
Ok(t, data) == [to |-> t, status |-> 200, body |-> data]

\* lines 242, 259: jsonify({"error": reason}), 503
Unavailable(t, reason) == [to |-> t, status |-> 503, body |-> [error |-> reason]]

\* line 253: the exception leaves the handler
ServerError(t, e) == [to |-> t, status |-> 500, body |-> [exception |-> e]]

\* the step just taken sent nothing
NoResponse == [to |-> NoStr, status |-> 0, body |-> None]

\* no pipeline function is being studied alone
NotCalled == [called |-> FALSE]

\* lines 38, 47, 48: the server has started and no request has arrived
Started ==
    /\ cache = [data |-> None, last_fetch |-> 0, last_error |-> 0]
    /\ refresh_lock = FALSE
    /\ STUDY_PROFILE_ID \in {NoStr, "profile-override"}
    /\ pc = [t \in Threads |-> "idle"]
    /\ now = [t \in Threads |-> 0]
    /\ exc = [t \in Threads |-> NoStr]
    /\ response = NoResponse
    /\ budget = NoLimit

Init ==
    /\ Started
    /\ clock = Epoch
    /\ upstream = NoStr
    /\ returned = NotCalled

\* wall-clock time passes
Tick ==
    /\ \E later \in Times :
          /\ later > clock
          /\ clock' = later
    /\ UNCHANGED << cache, refresh_lock, STUDY_PROFILE_ID, pc, now, exc, budget >>
    /\ response' = NoResponse
    /\ UNCHANGED << upstream, returned >>

\* line 236: a request arrives; now = time.time()
Begin(t) ==
    /\ pc[t] = "idle"
    /\ budget # 0
    /\ budget' = IF budget = NoLimit THEN NoLimit ELSE budget - 1
    /\ now' = [now EXCEPT ![t] = clock]
    /\ response' = NoResponse
    /\ pc' = [pc EXCEPT ![t] = "L239"]
    /\ UNCHANGED << cache, refresh_lock, STUDY_PROFILE_ID, clock, exc >>
    /\ UNCHANGED << upstream, returned >>

\* variant: the backoff window closed one second late (<= for <)
InBackoff_Leq(c, n) == c.last_error # 0 /\ n - c.last_error <= ERROR_BACKOFF

\* line 239: cache["last_error"] and now - cache["last_error"] < ERROR_BACKOFF
InBackoff(c, n) == c.last_error # 0 /\ n - c.last_error < ERROR_BACKOFF

\* variant: the backoff check clears an expired failure timestamp itself
CheckBackoff_Clears(t) ==
    /\ pc[t] = "L239"
    /\ pc' = [pc EXCEPT ![t] = IF InBackoff(cache, now[t]) THEN "L240" ELSE "L245"]
    /\ cache' = IF InBackoff(cache, now[t]) THEN cache
                ELSE [cache EXCEPT !.last_error = 0]
    /\ UNCHANGED << refresh_lock, STUDY_PROFILE_ID, clock, now, exc, budget >>
    /\ response' = NoResponse
    /\ UNCHANGED << upstream, returned >>

\* line 239.  The two reads of cache["last_error"] are one step: a store
\* between them gives the outcome of this step taken after the store
CheckBackoff(t) ==
    /\ pc[t] = "L239"
    /\ pc' = [pc EXCEPT ![t] = IF InBackoff(cache, now[t]) THEN "L240" ELSE "L245"]
    /\ UNCHANGED << cache, refresh_lock, STUDY_PROFILE_ID, clock, now, exc, budget >>
    /\ response' = NoResponse
    /\ UNCHANGED << upstream, returned >>

\* lines 240-242: serve during backoff.  A Snapshot is a dict of three keys
\* and therefore true; only None is false
ReturnBackoff(t) ==
    /\ pc[t] = "L240"
    /\ response' = IF cache.data # None THEN Ok(t, cache.data)
                   ELSE Unavailable(t, "temporary backoff")
    /\ pc' = [pc EXCEPT ![t] = "idle"]
    /\ now' = [now EXCEPT ![t] = 0]
    /\ UNCHANGED << cache, refresh_lock, STUDY_PROFILE_ID, clock, exc, budget >>
    /\ UNCHANGED << upstream, returned >>

\* variant: a Snapshot exactly REFRESH_INTERVAL old counts as stale (>= for >)
IsStale_Geq(c, n) == c.data = None \/ n - c.last_fetch >= REFRESH_INTERVAL

\* line 245: not cache["data"] or now - cache["last_fetch"] > REFRESH_INTERVAL
IsStale(c, n) == c.data = None \/ n - c.last_fetch > REFRESH_INTERVAL

\* line 245.  cache["data"] goes from None to a Snapshot and never back, so
\* reading it and then cache["last_fetch"] is one step
CheckStale(t) ==
    /\ pc[t] = "L245"
    /\ pc' = [pc EXCEPT ![t] = IF IsStale(cache, now[t]) THEN "L246" ELSE "L257"]
    /\ UNCHANGED << cache, refresh_lock, STUDY_PROFILE_ID, clock, now, exc, budget >>
    /\ response' = NoResponse
    /\ UNCHANGED << upstream, returned >>

\* variant: the lock is not consulted, every stale request refreshes
Acquire_Blind(t) ==
    /\ pc[t] = "L246"
    /\ refresh_lock' = TRUE
    /\ pc' = [pc EXCEPT ![t] = PipelineSteps[1]]
    /\ UNCHANGED << cache, STUDY_PROFILE_ID, clock, now, exc, budget >>
    /\ response' = NoResponse
    /\ UNCHANGED << upstream, returned >>

\* variant: a blocking acquire, the request waits for the lock
Acquire_Blocking(t) ==
    /\ pc[t] = "L246"
    /\ ~refresh_lock
    /\ refresh_lock' = TRUE
    /\ pc' = [pc EXCEPT ![t] = PipelineSteps[1]]
    /\ UNCHANGED << cache, STUDY_PROFILE_ID, clock, now, exc, budget >>
    /\ response' = NoResponse
    /\ UNCHANGED << upstream, returned >>

\* line 246: refresh_lock.acquire(blocking=False)
Acquire(t) ==
    /\ pc[t] = "L246"
    /\ IF refresh_lock
       THEN /\ pc' = [pc EXCEPT ![t] = "L257"]
            /\ UNCHANGED refresh_lock
       ELSE /\ refresh_lock' = TRUE
            /\ pc' = [pc EXCEPT ![t] = PipelineSteps[1]]
    /\ UNCHANGED << cache, STUDY_PROFILE_ID, clock, now, exc, budget >>
    /\ response' = NoResponse
    /\ UNCHANGED << upstream, returned >>

\* variant: the failure is stamped with the time it happened at
Fail_StampsClock(t, step) ==
    /\ cache' = [cache EXCEPT !.last_error = clock]
    /\ exc' = [exc EXCEPT ![t] = step]
    /\ pc' = [pc EXCEPT ![t] = "L255"]
    /\ UNCHANGED << refresh_lock, STUDY_PROFILE_ID, clock, now, budget >>
    /\ response' = NoResponse
    /\ UNCHANGED << upstream, returned >>

\* variant: a failed refresh discards the stored Snapshot
Fail_Discards(t, step) ==
    /\ cache' = [cache EXCEPT !.last_error = now[t], !.data = None]
    /\ exc' = [exc EXCEPT ![t] = step]
    /\ pc' = [pc EXCEPT ![t] = "L255"]
    /\ UNCHANGED << refresh_lock, STUDY_PROFILE_ID, clock, now, budget >>
    /\ response' = NoResponse
    /\ UNCHANGED << upstream, returned >>

\* lines 251-253: the except clause records the failure time; the exception
\* stays in flight until the finally clause has run
Fail(t, step) ==
    /\ cache' = [cache EXCEPT !.last_error = now[t]]
    /\ exc' = [exc EXCEPT ![t] = step]
    /\ pc' = [pc EXCEPT ![t] = "L255"]
    /\ UNCHANGED << refresh_lock, STUDY_PROFILE_ID, clock, now, budget >>
    /\ response' = NoResponse
    /\ UNCHANGED << upstream, returned >>

\* a pipeline step returns its value to refresh_data, which calls the next
Proceed(t, next) ==
    /\ pc' = [pc EXCEPT ![t] = next]
    /\ UNCHANGED << cache, refresh_lock, STUDY_PROFILE_ID, clock, now, exc, budget >>
    /\ response' = NoResponse
    /\ UNCHANGED << upstream, returned >>

\* lines 58-92 (called at 221): GET and POST with timeout=10; raises on a
\* bad status, a missing form or action, a missing redirect or token
KeycloakLogin(t) ==
    /\ pc[t] = "keycloak_login"
    /\ \/ Proceed(t, "fetch_student_uuid")
       \/ Fail(t, "keycloak_login")

\* variant: profile resolution is skipped
FetchStudentUuid_SkipsProfile(t) ==
    /\ pc[t] = "fetch_student_uuid"
    /\ \/ Proceed(t, "fetch_current_period_id")
       \/ Fail(t, "fetch_student_uuid")

\* lines 94-103 (called at 222): GET with timeout=10; raises on a bad
\* status or a missing sameAs
FetchStudentUuid(t) ==
    /\ pc[t] = "fetch_student_uuid"
    /\ \/ Proceed(t, "fetch_study_profile_id")
       \/ Fail(t, "fetch_student_uuid")

\* lines 106-107 (called at 224): the override skips the network call
ProfileOverride(t) ==
    /\ pc[t] = "fetch_study_profile_id"
    /\ STUDY_PROFILE_ID # NoStr
    /\ Proceed(t, "fetch_current_period_id")

\* lines 109-140: session.post(...) is issued WITHOUT a timeout, so this
\* action is the arrival of the upstream's answer (or of a connection
\* error); nothing in the program makes it happen
ProfileResponse(t) ==
    /\ pc[t] = "fetch_study_profile_id"
    /\ STUDY_PROFILE_ID = NoStr
    /\ \/ Proceed(t, "fetch_current_period_id")
       \/ Fail(t, "fetch_study_profile_id")

\* lines 149-172 (called at 225): GET with timeout=10; raises on a bad
\* status or on max() of an empty period list
FetchCurrentPeriodId(t) ==
    /\ pc[t] = "fetch_current_period_id"
    /\ \/ Proceed(t, "fetch_progress_json")
       \/ Fail(t, "fetch_current_period_id")

\* lines 228-230 for every progress document and every instant, each
\* aggregation computed once
RefreshResults ==
    {[doc |-> d, utcnow |-> u, snapshot |-> summarize(parse_progress_absences(d), u)] :
        d \in Documents, u \in Times}

\* lines 227-230: the Snapshot refresh_data returns for the progress
\* document doc, built at utcnow
refresh_data(doc, utcnow) ==
    (CHOOSE r \in RefreshResults : r.doc = doc /\ r.utcnow = utcnow).snapshot

\* lines 176-181 and 227-230, then the store of line 248: the progress
\* document arrives, is parsed and summarized, and refresh_data's return
\* value is assigned to cache["data"]
StoreData(t, doc) ==
    /\ cache' = [cache EXCEPT !.data = refresh_data(doc, clock)]
    /\ pc' = [pc EXCEPT ![t] = "L249"]
    /\ UNCHANGED << refresh_lock, STUDY_PROFILE_ID, clock, now, exc, budget >>
    /\ response' = NoResponse
    /\ UNCHANGED << upstream, returned >>

FetchProgress(t) ==
    /\ pc[t] = "fetch_progress_json"
    /\ \/ \E doc \in Documents : StoreData(t, doc)
       \/ Fail(t, "fetch_progress_json")

\* variant: the success is stamped with the time the run finished at
StoreLastFetch_Clock(t) ==
    /\ pc[t] = "L249"
    /\ cache' = [cache EXCEPT !.last_fetch = clock]
    /\ pc' = [pc EXCEPT ![t] = "L250"]
    /\ UNCHANGED << refresh_lock, STUDY_PROFILE_ID, clock, now, exc, budget >>
    /\ response' = NoResponse
    /\ UNCHANGED << upstream, returned >>

\* line 249: cache["last_fetch"] = now
StoreLastFetch(t) ==
    /\ pc[t] = "L249"
    /\ cache' = [cache EXCEPT !.last_fetch = now[t]]
    /\ pc' = [pc EXCEPT ![t] = "L250"]
    /\ UNCHANGED << refresh_lock, STUDY_PROFILE_ID, clock, now, exc, budget >>
    /\ response' = NoResponse
    /\ UNCHANGED << upstream, returned >>

\* line 250: cache["last_error"] = 0
ClearLastError(t) ==
    /\ pc[t] = "L250"
    /\ cache' = [cache EXCEPT !.last_error = 0]
    /\ pc' = [pc EXCEPT ![t] = "L255"]
    /\ UNCHANGED << refresh_lock, STUDY_PROFILE_ID, clock, now, exc, budget >>
    /\ response' = NoResponse
    /\ UNCHANGED << upstream, returned >>

\* lines 253-255: finally releases the lock; a pending exception then
\* leaves the handler (line 253, raise) and the request ends in an error
Finally(t) ==
    /\ pc[t] = "L255"
    /\ refresh_lock' = FALSE
    /\ IF exc[t] # NoStr
       THEN /\ response' = ServerError(t, exc[t])
            /\ exc' = [exc EXCEPT ![t] = NoStr]
            /\ pc' = [pc EXCEPT ![t] = "idle"]
            /\ now' = [now EXCEPT ![t] = 0]
       ELSE /\ response' = NoResponse
            /\ pc' = [pc EXCEPT ![t] = "L257"]
            /\ UNCHANGED << exc, now >>
    /\ UNCHANGED << cache, STUDY_PROFILE_ID, clock, budget >>
    /\ UNCHANGED << upstream, returned >>

\* lines 257-259
Return(t) ==
    /\ pc[t] = "L257"
    /\ response' = IF cache.data # None THEN Ok(t, cache.data)
                   ELSE Unavailable(t, "no data yet")
    /\ pc' = [pc EXCEPT ![t] = "idle"]
    /\ now' = [now EXCEPT ![t] = 0]
    /\ UNCHANGED << cache, refresh_lock, STUDY_PROFILE_ID, clock, exc, budget >>
    /\ UNCHANGED << upstream, returned >>

\* the steps of thread t that the program itself brings about: every
\* statement of the handler, and every network call that carries a timeout
Progress(t) ==
    \/ CheckBackoff(t)
    \/ ReturnBackoff(t)
    \/ CheckStale(t)
    \/ Acquire(t)
    \/ KeycloakLogin(t)
    \/ FetchStudentUuid(t)
    \/ ProfileOverride(t)
    \/ FetchCurrentPeriodId(t)
    \/ FetchProgress(t)
    \/ StoreLastFetch(t)
    \/ ClearLastError(t)
    \/ Finally(t)
    \/ Return(t)

Next ==
    \/ Tick
    \/ \E t \in Threads : Begin(t)
    \/ \E t \in Threads : Progress(t)
    \/ \E t \in Threads : ProfileResponse(t)

Spec == Init /\ [][Next]_vars

\* a thread that can take a step of its own eventually takes one; requests
\* need not keep arriving, and the upstream need not answer the POST of
\* fetch_study_profile_id, which has no timeout
FairSpec == Spec /\ \A t \in Threads : WF_vars(Progress(t))

\* ------------------------------------------------ a storm on a stale cache
\* the cache after one successful refresh at Epoch - ERROR_BACKOFF
StormCache ==
    [data |-> summarize(parse_progress_absences(DocExample), Epoch - ERROR_BACKOFF),
     last_fetch |-> Epoch - ERROR_BACKOFF,
     last_error |-> 0]

\* the Snapshot is older than REFRESH_INTERVAL, no failure is recorded, the
\* lock is free, and one request per thread is about to arrive
InitStorm ==
    /\ cache = StormCache
    /\ refresh_lock = FALSE
    /\ STUDY_PROFILE_ID \in {NoStr, "profile-override"}
    /\ clock = Epoch + REFRESH_INTERVAL
    /\ pc = [t \in Threads |-> "idle"]
    /\ now = [t \in Threads |-> 0]
    /\ exc = [t \in Threads |-> NoStr]
    /\ response = NoResponse
    /\ budget = Cardinality(Threads)
    /\ upstream = NoStr
    /\ returned = NotCalled

SpecStorm == InitStorm /\ [][Next]_vars

\* ------------------------------------------- the aggregation, called alone
\* the variables of the request handler
handler == << cache, refresh_lock, STUDY_PROFILE_ID, clock, pc, now, exc, response, budget >>

\* the value a pipeline function returned
Returned(value) == [called |-> TRUE, raised |-> NoStr, value |-> value]

\* the exception a pipeline function raised
Raised(e) == [called |-> TRUE, raised |-> e, value |-> NoStr]

\* modules a progress document may carry: counts that cannot be represented
\* in binary (0.001, 0.002, 0.012), counts that can (0.125, 1.5, 3), a
\* negative, a zero and a missing count, a label taken from the nested title
Modules ==
    {Module("Math", NoStr, << n >>) : n \in {1, 2, 12, 125, 1500, 3000, 0 - 1500}}
        \cup {Module("Art", NoStr, << 0 >>), Module("Art", NoStr, << 125 >>),
              Module("Art", NoStr, << >>), Module(NoStr, "Art", << 125 >>)}

ModuleLists == UNION {[1..k -> Modules] : k \in 0..MaxModules}

\* the progress document has arrived at line 227
InitAggregation ==
    /\ Started
    /\ clock = Epoch
    /\ upstream \in ModuleLists
    /\ returned = NotCalled

\* lines 228-230: parse_progress_absences, then summarize
Aggregate ==
    /\ returned' = Returned(summarize(parse_progress_absences(upstream), clock))
    /\ UNCHANGED << handler, upstream >>

\* the upstream lists the same modules in another order: two neighbours
\* change places
Reorder ==
    /\ \E i \in 1..(Len(upstream) - 1) :
          upstream' = [upstream EXCEPT ![i] = upstream[i + 1], ![i + 1] = upstream[i]]
    /\ UNCHANGED << handler, returned >>

NextAggregation == Aggregate \/ Reorder

SpecAggregation == InitAggregation /\ [][NextAggregation]_vars

\* --------------------------------------- period resolution, called alone
\* a period of the answer of the periods endpoint: its id (here its place in
\* the answer) and the two bounds of academicConvergence, each << >> when
\* missing, null or empty and << d >> otherwise (d an instant in UTC)
Period(id, dateFrom, dateTo) == [id |-> id, dateFrom |-> dateFrom, dateTo |-> dateTo]

Dates == {<< >>} \cup {<< d >> : d \in 1..MaxDate}

\* the answers of the periods endpoint: up to MaxPeriods periods; the
\* upstream writes its timestamps either all with a UTC offset (aware) or
\* all without one (naive, read in the server's zone, taken to be UTC)
RECURSIVE PeriodListsUpTo(_)
PeriodListsUpTo(k) ==
    IF k = 0 THEN {<< >>}
    ELSE LET shorter == PeriodListsUpTo(k - 1)
         IN  shorter \cup
             {Append(periods, Period(Len(periods) + 1, dateFrom, dateTo)) :
                 periods \in shorter, dateFrom \in Dates, dateTo \in Dates}

PeriodLists == PeriodListsUpTo(MaxPeriods)

\* line 169: datetime.min (aware), earlier than every date
DatetimeMin == 0

\* lines 166-169: date_from_key; a datetime parsed from a timestamp without
\* offset is naive, datetime.min.replace(tzinfo=utc) is aware
date_from_key(p, aware) ==
    IF p.dateFrom = << >> THEN [t |-> DatetimeMin, aware |-> TRUE]
    ELSE [t |-> p.dateFrom[1], aware |-> aware]

\* line 171: max(periods, key=date_from_key) over the periods i..n with the
\* largest so far at `best`: the place of the first largest key, or 0 when
\* a naive key meets an aware one (TypeError)
RECURSIVE MaxByKey(_, _, _, _)
MaxByKey(periods, aware, i, best) ==
    IF i > Len(periods) THEN best
    ELSE LET k == date_from_key(periods[i], aware)
             b == date_from_key(periods[best], aware)
         IN  IF k.aware # b.aware THEN 0
             ELSE MaxByKey(periods, aware, i + 1, IF k.t > b.t THEN i ELSE best)

\* variant: the bounds of the range are excluded (< for <=)
InRange_Strict(p, n) ==
    /\ p.dateFrom # << >> /\ p.dateTo # << >>
    /\ p.dateFrom[1] < n /\ n < p.dateTo[1]

\* lines 162-163: both bounds present and date_from <= now <= date_to
InRange(p, n) ==
    /\ p.dateFrom # << >> /\ p.dateTo # << >>
    /\ p.dateFrom[1] <= n /\ n <= p.dateTo[1]

\* lines 155-172, on the parsed answer: the first period in range, else the
\* one with the largest dateFrom
fetch_current_period_id(periods, aware, n) ==
    IF \E i \in DOMAIN periods : InRange(periods[i], n)
    THEN Returned(periods[CHOOSE i \in DOMAIN periods :
                              /\ InRange(periods[i], n)
                              /\ \A j \in 1..(i - 1) : ~InRange(periods[j], n)].id)
    ELSE IF periods = << >> THEN Raised("ValueError")
    ELSE LET latest == MaxByKey(periods, aware, 2, 1)
         IN  IF latest = 0 THEN Raised("TypeError") ELSE Returned(periods[latest].id)

\* the periods endpoint has answered at line 153; clock is `now` of line 155
InitPeriods ==
    /\ Started
    /\ STUDY_PROFILE_ID = NoStr
    /\ clock \in 1..MaxDate
    /\ upstream \in [aware : BOOLEAN, periods : PeriodLists]
    /\ returned = NotCalled

\* lines 155-172
ResolvePeriod ==
    /\ returned = NotCalled
    /\ returned' = fetch_current_period_id(upstream.periods, upstream.aware, clock)
    /\ UNCHANGED << handler, upstream >>

NextPeriods == ResolvePeriod

SpecPeriods == InitPeriods /\ [][NextPeriods]_vars

\* -------------------------------------- profile resolution, called alone
\* line 217: os.environ["PORTAL_USERNAME"]
Username == "student"

\* a profile of the academic-review answer (lines 126-134); a missing key,
\* null or "" is NoStr, a missing or false activeProfile is FALSE
Profile(activeProfile, traineeRegistrationNumber, id, assignedProfileId) ==
    [activeProfile |-> activeProfile, id |-> id,
     study |-> [traineeRegistrationNumber |-> traineeRegistrationNumber,
                assignedProfileId |-> assignedProfileId]]

\* identifiers that tell the profiles of an answer apart, by place
ProfileIds == << "id-1", "id-2", "id-3", "id-4" >>

AssignedIds == << "assigned-1", "assigned-2", "assigned-3", "assigned-4" >>

\* the answers of the academic-review endpoint: up to MaxProfiles profiles,
\* active or not, registered under the username, under the username in
\* another case or under nothing, with or without each identifier
ProfileLists ==
    UNION {{[i \in 1..k |->
                Profile(f[i][1], f[i][2],
                        IF f[i][3] THEN ProfileIds[i] ELSE NoStr,
                        IF f[i][4] THEN AssignedIds[i] ELSE NoStr)] :
              f \in [1..k -> BOOLEAN \X {Username, "STUDENT", NoStr} \X BOOLEAN \X BOOLEAN]}
             : k \in 0..MaxProfiles}

\* line 123
NoProfilesFound == "No profiles found in academic-review response"

\* line 140
ProfileIdNotFound == "Study profile ID not found in academic-review response"

\* lines 125-140: the loop over the profiles from place i on
RECURSIVE ScanProfiles(_, _, _)
ScanProfiles(profiles, username, i) ==
    IF i > Len(profiles) THEN Raised(ProfileIdNotFound)
    ELSE LET profile == profiles[i]
         IN  IF ~profile.activeProfile THEN ScanProfiles(profiles, username, i + 1)
             ELSE IF profile.study.traineeRegistrationNumber # username
                  THEN ScanProfiles(profiles, username, i + 1)
             ELSE IF profile.id # NoStr THEN Returned(profile.id)
             ELSE IF profile.study.assignedProfileId # NoStr
                  THEN Returned(profile.study.assignedProfileId)
             ELSE ScanProfiles(profiles, username, i + 1)

\* lines 105-140, on the parsed answer
fetch_study_profile_id(override, profiles, username) ==
    IF override # NoStr THEN Returned(override)
    ELSE IF profiles = << >> THEN Raised(NoProfilesFound)
    ELSE ScanProfiles(profiles, username, 1)

\* the academic-review endpoint has answered at line 119 (with an override
\* it is never asked)
InitProfiles ==
    /\ Started
    /\ clock = Epoch
    /\ upstream \in ProfileLists
    /\ returned = NotCalled

\* lines 105-140
ResolveProfile ==
    /\ returned = NotCalled
    /\ returned' = fetch_study_profile_id(STUDY_PROFILE_ID, upstream, Username)
    /\ UNCHANGED << handler, upstream >>

NextProfiles == ResolveProfile

SpecProfiles == InitProfiles /\ [][NextProfiles]_vars

\* ------------------------------------------------------------- properties
\* thread t takes a step
Acts(t) == pc'[t] # pc[t]

\* thread t's request ends with this step
Returns(t) == pc[t] # "idle" /\ pc'[t] = "idle"

\* the Snapshots a complete pipeline run can produce at time u
CompleteSnapshots(u) == {refresh_data(doc, u) : doc \in Documents}

\* C1: in every reachable state at most one request thread is executing the
\* pipeline (refresh_data), however many requests are in progress.
C1_OnePipelineAtATime ==
    Cardinality({t \in Threads : pc[t] \in PipelinePcs}) <= 1

\* a thread runs the pipeline while another has reached the acquire
C1_Witness ==
    \E t, u \in Threads :
        t # u /\ pc[t] \in PipelinePcs /\ pc[u] = "L246" /\ cache.data # None

\* C2: given a Snapshot older than REFRESH_INTERVAL, no backoff and the lock
\* free, when all the threads' requests are in progress together, a thread
\* is inside the pipeline only while no run has completed before: exactly
\* one pipeline run is triggered.
C2_ExactlyOneRun ==
    (budget = 0 /\ \A u \in Threads : pc[u] # "idle")
        => \A t \in Threads : pc[t] \in PipelinePcs => cache = StormCache

\* C3: a request whose backoff check finds a failure recorded less than
\* ERROR_BACKOFF seconds before its `now` never reaches the acquire or the
\* pipeline, changes nothing, and answers with the stored Snapshot if there
\* is one and with "temporary backoff" otherwise; with ERROR_BACKOFF seconds
\* or more elapsed it is not in backoff and goes on to the staleness check.
C3_Backoff ==
    [][\A t \in Threads :
        /\ (pc[t] = "L239" /\ Acts(t)) =>
              /\ (cache.last_error # 0
                    /\ now[t] - cache.last_error < ERROR_BACKOFF)
                    => pc'[t] = "L240"
              /\ (cache.last_error # 0
                    /\ now[t] - cache.last_error >= ERROR_BACKOFF)
                    => pc'[t] = "L245"
              /\ UNCHANGED << cache, refresh_lock >>
        /\ (pc[t] = "L240" /\ Acts(t)) =>
              /\ Returns(t)
              /\ UNCHANGED << cache, refresh_lock >>
              /\ response' = IF cache.data # None
                             THEN [to |-> t, status |-> 200, body |-> cache.data]
                             ELSE [to |-> t, status |-> 503,
                                   body |-> [error |-> "temporary backoff"]]
      ]_vars

\* a request has just been answered "temporary backoff"
C3_Witness ==
    /\ response.status = 503
    /\ response.body = [error |-> "temporary backoff"]
    /\ cache.last_error # 0

\* C4: when the pipeline run of thread t fails, the failure timestamp
\* becomes t's `now`; the Snapshot and the success timestamp are not changed
\* by that step nor by any other step taken while the run was in progress;
\* and the error response goes to the thread whose run failed, every other
\* request ending with a Snapshot or an Unavailable response.
C4_FailureRecorded ==
    [][\A t \in Threads :
        /\ (pc[t] \in PipelinePcs /\ pc'[t] # "L249") =>
              /\ cache'.data = cache.data
              /\ cache'.last_fetch = cache.last_fetch
        /\ (pc[t] \in PipelinePcs /\ pc'[t] = "L255") =>
              /\ cache'.last_error = now[t]
              /\ exc'[t] # NoStr
        /\ Returns(t) =>
              /\ response'.to = t
              /\ response'.status \in {200, 503, 500}
              /\ response'.status = 500 <=> (pc[t] = "L255" /\ exc[t] # NoStr)
              /\ response'.status = 500 => cache.last_error = now[t]
      ]_vars

\* a request has just ended with the error of its own failed run, while the
\* Snapshot of an earlier run is still stored
C4_Witness ==
    /\ response.status = 500
    /\ cache.data # None
    /\ cache.last_error # 0

\* C5: whenever the lock is held it is eventually free again.
C5_LockEventuallyFree == refresh_lock ~> ~refresh_lock

\* C6: a request that reaches the acquire while the lock is held is not
\* made to wait: its next step leads straight to the final return, starts no
\* pipeline run and changes neither the cache nor the lock; the final return
\* answers with the Snapshot then stored, or with "no data yet".
C6_NonBlocking ==
    /\ [](\A t \in Threads : pc[t] = "L246" => ENABLED Acquire(t))
    /\ [][\A t \in Threads :
            /\ (pc[t] = "L246" /\ refresh_lock /\ Acts(t)) =>
                  /\ pc'[t] = "L257"
                  /\ UNCHANGED << cache, refresh_lock >>
            /\ (pc[t] = "L257" /\ Acts(t)) =>
                  /\ Returns(t)
                  /\ UNCHANGED << cache, refresh_lock >>
                  /\ response' = IF cache.data # None
                                 THEN [to |-> t, status |-> 200, body |-> cache.data]
                                 ELSE [to |-> t, status |-> 503,
                                       body |-> [error |-> "no data yet"]]
          ]_vars

\* a request has just been answered "no data yet": it found the lock held
\* by the first refresh
C6_Witness ==
    /\ response.status = 503
    /\ response.body = [error |-> "no data yet"]
    /\ refresh_lock

\* C7: when the pipeline run of thread t succeeds, a complete new Snapshot
\* is installed; once the three stores are done the success timestamp is
\* t's `now` and the failure timestamp is cleared, so that a request
\* evaluated at any time n is not in backoff, and is stale only if
\* n - now > REFRESH_INTERVAL; t then answers with a stored Snapshot.
C7_SuccessInstalled ==
    /\ [](\A t \in Threads :
            /\ pc[t] \in {"L249", "L250"} => cache.data # None
            /\ (pc[t] = "L255" /\ exc[t] = NoStr) =>
                  /\ cache.data # None
                  /\ cache.last_fetch = now[t]
                  /\ cache.last_error = 0
                  /\ \A n \in Times :
                        /\ ~(cache.last_error # 0
                               /\ n - cache.last_error < ERROR_BACKOFF)
                        /\ (cache.data = None
                              \/ n - cache.last_fetch > REFRESH_INTERVAL)
                              <=> n - now[t] > REFRESH_INTERVAL)
    /\ [][\A t \in Threads :
            /\ (pc[t] = "fetch_progress_json" /\ pc'[t] = "L249") =>
                  /\ cache'.data \in CompleteSnapshots(clock)
            /\ (pc[t] = "L255" /\ exc[t] = NoStr /\ Acts(t)) =>
                  /\ pc'[t] = "L257"
                  /\ UNCHANGED cache
            /\ (pc[t] = "L257" /\ cache.data # None /\ Acts(t)) =>
                  response' = [to |-> t, status |-> 200, body |-> cache.data]
          ]_vars

\* a run has succeeded later than process start and its three stores are done
C7_Witness ==
    \E t \in Threads :
        /\ pc[t] = "L255"
        /\ exc[t] = NoStr
        /\ now[t] > Epoch
        /\ clock > now[t]

\* C8: a request whose staleness check finds a Snapshot with
\* now - last_fetch <= REFRESH_INTERVAL (equality included) goes straight to
\* the final return without touching the lock or the cache, and is answered
\* with the stored Snapshot.
C8_FreshServed ==
    [][\A t \in Threads :
        /\ (pc[t] = "L245" /\ cache.data # None
              /\ now[t] - cache.last_fetch <= REFRESH_INTERVAL /\ Acts(t)) =>
              /\ pc'[t] = "L257"
              /\ UNCHANGED << cache, refresh_lock >>
        /\ (pc[t] = "L257" /\ cache.data # None /\ Acts(t)) =>
              /\ Returns(t)
              /\ UNCHANGED << cache, refresh_lock >>
              /\ response'.to = t
              /\ response'.status = 200
              /\ response'.body = cache.data
      ]_vars

\* both threads have passed the staleness check exactly REFRESH_INTERVAL
\* after the last success, which neither of these two requests produced,
\* and are about to return the Snapshot
C8_Witness ==
    /\ \A t \in Threads :
          /\ pc[t] = "L257"
          /\ now[t] - cache.last_fetch = REFRESH_INTERVAL
    /\ cache.data # None
    /\ cache.last_error = 0
    /\ ~refresh_lock

\* C9: every step that changes the cache (Snapshot, success timestamp or
\* failure timestamp) is taken by a thread that is between its successful
\* acquire and its release, with the lock held; such a thread is unique.
C9_WritesUnderLock ==
    /\ [](/\ Cardinality({t \in Threads : Holds(t)}) <= 1
          /\ \A t \in Threads : Holds(t) => refresh_lock)
    /\ [][cache' # cache =>
            \E t \in Threads : Holds(t) /\ refresh_lock /\ Acts(t)]_vars

\* the lock holder has written the Snapshot while another request is in
\* progress
C9_Witness ==
    \E t, u \in Threads :
        /\ t # u
        /\ pc[t] = "L249"
        /\ pc[u] \notin {"idle"}
        /\ refresh_lock

\* C10: once a Snapshot is stored the cache never becomes empty again, and
\* the stored Snapshot changes only when a pipeline run completes its last
\* step, to the complete Snapshot built at that moment, which is not older
\* than the one it replaces.
C10_SnapshotKept ==
    [][cache.data # None =>
        /\ cache'.data # None
        /\ cache'.data # cache.data =>
              /\ \E t \in Threads :
                    pc[t] = "fetch_progress_json" /\ pc'[t] = "L249"
              /\ cache'.data \in CompleteSnapshots(clock)
              /\ cache'.data.last_updated >= cache.data.last_updated
      ]_vars

\* a Snapshot stored by an earlier run has survived a later failure, which
\* is still recorded
C10_Witness ==
    /\ cache.data # None
    /\ cache.last_error # 0
    /\ cache.last_error >= cache.last_fetch
    /\ cache.data.last_updated < clock

\* the sum of f[c].used over the courses c of S
RECURSIVE SumOfUsed(_, _)
SumOfUsed(f, S) ==
    IF S = {} THEN 0
    ELSE LET c == CHOOSE x \in S : TRUE
         IN  f[c].used + SumOfUsed(f, S \ {c})

\* C11: the Snapshot's total_used equals the sum of its per_course used
\* values (all of them rounded to two decimals), whatever the module list.
C11_TotalIsSumOfCourses ==
    returned.called =>
        returned.value.total_used
            = SumOfUsed(returned.value.per_course, DOMAIN returned.value.per_course)

\* the label of a module: its own name, else the nested title
LabelOf(m) == IF m.name \notin {NoStr, ""} THEN m.name ELSE m.title

\* the positions of the module list that carry a strictly positive count
PositiveAt(modules) ==
    {i \in DOMAIN modules : modules[i].absences # << >> /\ modules[i].absences[1] > 0}

\* the exact sum, in thousandths, of the counts at the positions I
RECURSIVE ExactSum(_, _)
ExactSum(modules, I) ==
    IF I = {} THEN 0
    ELSE LET i == CHOOSE x \in I : TRUE
         IN  modules[i].absences[1] + ExactSum(modules, I \ {i})

\* h hundredths is k thousandths rounded to two decimals
RoundedFrom(h, k) == 10 * h - k \in (0 - 5)..5

\* C14: the keys of per_course are exactly the labels of the modules with a
\* strictly positive count, so a module with a missing, zero or negative
\* count adds no key; each used value is the sum of the positive counts
\* under that label and total_used the sum of all positive counts (to two
\* decimals); Math 3 + Math 1.5 + Art 0 gives 4.5 and {Math: 4.5}.
C14_OnlyPositiveCounts ==
    returned.called =>
        LET snapshot == returned.value
            positive == PositiveAt(upstream)
        IN  /\ DOMAIN snapshot.per_course = {LabelOf(upstream[i]) : i \in positive}
            /\ \A c \in DOMAIN snapshot.per_course :
                  RoundedFrom(snapshot.per_course[c].used,
                              ExactSum(upstream, {i \in positive : LabelOf(upstream[i]) = c}))
            /\ RoundedFrom(snapshot.total_used, ExactSum(upstream, positive))
            /\ (\A i \in DOMAIN upstream : i \notin positive) =>
                  snapshot.total_used = 0
            /\ upstream = DocExample =>
                  /\ snapshot.total_used = 450
                  /\ snapshot.per_course = [c \in {"Math"} |-> [used |-> 450]]

\* the example document has been aggregated
C14_Witness ==
    /\ returned.called
    /\ upstream = DocExample
    /\ returned.value.total_used = 450

\* C15: aggregating the same modules in another order yields the same
\* total_used and the same per_course mapping.
C15_OrderIndependent ==
    [][(returned.called /\ returned'.called) =>
          /\ returned'.value.total_used = returned.value.total_used
          /\ returned'.value.per_course = returned.value.per_course
      ]_vars

\* C12: when some period has both bounds and dateFrom <= now <= dateTo,
\* period resolution returns the id of the first such period in input
\* order; a period with a missing bound is never the one returned.
C12_FirstPeriodInRange ==
    LET periods == upstream.periods
        hits == {i \in DOMAIN periods :
                    /\ periods[i].dateFrom # << >> /\ periods[i].dateTo # << >>
                    /\ periods[i].dateFrom[1] <= clock /\ clock <= periods[i].dateTo[1]}
    IN  (returned.called /\ hits # {}) =>
            /\ returned.raised = NoStr
            /\ returned.value \in hits
            /\ \A i \in hits : returned.value <= i

\* two periods contain now, the first lacks a bound, and the second of the
\* three was returned
C12_Witness ==
    /\ returned.called
    /\ Len(upstream.periods) = 3
    /\ upstream.periods[1].dateTo = << >>
    /\ upstream.periods[1].dateFrom = << clock >>
    /\ \A i \in {2, 3} : upstream.periods[i].dateFrom = << clock >>
                            /\ upstream.periods[i].dateTo = << clock >>
    /\ returned.value = 2

\* C13: for a non-empty collection in which no period contains now, period
\* resolution returns a period whose dateFrom is the largest among the
\* periods that have one; when no period has a dateFrom it does not fail
\* and returns the first period.
C13_LatestPeriod ==
    LET periods == upstream.periods
        hits == {i \in DOMAIN periods :
                    /\ periods[i].dateFrom # << >> /\ periods[i].dateTo # << >>
                    /\ periods[i].dateFrom[1] <= clock /\ clock <= periods[i].dateTo[1]}
        dated == {i \in DOMAIN periods : periods[i].dateFrom # << >>}
    IN  (returned.called /\ periods # << >> /\ hits = {}) =>
            /\ returned.raised = NoStr
            /\ dated # {} =>
                  /\ returned.value \in dated
                  /\ \A i \in dated :
                        periods[i].dateFrom[1] <= periods[returned.value].dateFrom[1]
            /\ dated = {} => returned.value = 1

\* a Snapshot of no absence at all: total 0 and an empty mapping
EmptySnapshot(d) == d # None /\ d.total_used = 0 /\ DOMAIN d.per_course = {}

\* C16: a progress document without any positive count makes the run
\* succeed with a Snapshot of total 0 and empty mapping; it is published
\* with its timestamps like any other, requests are answered with it (status
\* 200, never "no data yet"), and while it is fresh the staleness check
\* leads to the return without a pipeline run.
C16_EmptySnapshotServed ==
    /\ [](\A t \in Threads :
            /\ pc[t] = "fetch_progress_json" =>
                  \A doc \in Documents :
                      (\A i \in DOMAIN doc : AbsencesOf(doc[i]) <= 0) =>
                          /\ ENABLED StoreData(t, doc)
                          /\ EmptySnapshot(refresh_data(doc, clock))
            /\ (pc[t] = "L255" /\ exc[t] = NoStr /\ EmptySnapshot(cache.data)) =>
                  /\ cache.last_fetch = now[t]
                  /\ cache.last_error = 0)
    /\ [][\A t \in Threads :
            /\ (EmptySnapshot(cache.data) /\ pc[t] \in {"L240", "L257"} /\ Acts(t)) =>
                  /\ response'.status = 200
                  /\ response'.body = cache.data
            /\ (EmptySnapshot(cache.data) /\ pc[t] = "L245" /\ Acts(t)
                  /\ now[t] - cache.last_fetch <= REFRESH_INTERVAL) =>
                  pc'[t] = "L257"
          ]_vars

\* a request that arrived after an empty Snapshot was published, and while
\* it is fresh, is about to return it
C16_Witness ==
    \E t \in Threads :
        /\ pc[t] = "L257"
        /\ EmptySnapshot(cache.data)
        /\ now[t] > cache.last_fetch
        /\ now[t] - cache.last_fetch <= REFRESH_INTERVAL
        /\ cache.last_error = 0
        /\ ~refresh_lock

\* C17: a thread enters the pipeline at its first step and moves from each
\* step to the next one of the fixed order only; a step that fails ends the
\* run with that step's failure, the thread executes no later step, the
\* stored Snapshot is not changed and the failure leaves the handler; only
\* the last step, succeeding, produces a Snapshot.
C17_PipelineOrder ==
    [][\A t \in Threads :
        /\ (Acts(t) /\ pc'[t] \in PipelinePcs) =>
              \/ pc[t] = "L246" /\ pc'[t] = "keycloak_login"
              \/ pc[t] = "keycloak_login" /\ pc'[t] = "fetch_student_uuid"
              \/ pc[t] = "fetch_student_uuid" /\ pc'[t] = "fetch_study_profile_id"
              \/ pc[t] = "fetch_study_profile_id" /\ pc'[t] = "fetch_current_period_id"
              \/ pc[t] = "fetch_current_period_id" /\ pc'[t] = "fetch_progress_json"
        /\ (Acts(t) /\ pc[t] \in PipelinePcs /\ pc'[t] \notin PipelinePcs) =>
              \/ /\ pc[t] = "fetch_progress_json"
                 /\ pc'[t] = "L249"
                 /\ exc'[t] = NoStr
                 /\ cache'.data # None
              \/ /\ pc'[t] = "L255"
                 /\ exc'[t] = pc[t]
                 /\ cache'.data = cache.data
        /\ (Acts(t) /\ pc[t] = "L255" /\ exc[t] # NoStr) =>
              /\ pc'[t] = "idle"
              /\ response' = [to |-> t, status |-> 500, body |-> [exception |-> exc[t]]]
              /\ cache' = cache
      ]_vars

\* the fourth step has failed and its failure has left the handler
C17_Witness ==
    /\ response.status = 500
    /\ response.body = [exception |-> "fetch_current_period_id"]

\* C19: no pipeline run starts while a recorded failure is less than
\* ERROR_BACKOFF seconds old, whichever request would start it.
C19_NoRunDuringBackoff ==
    [][\A t \in Threads :
        (pc[t] = "L246" /\ pc'[t] = "keycloak_login") =>
            ~(cache.last_error # 0 /\ clock - cache.last_error < ERROR_BACKOFF)
      ]_vars

\* C20: the success timestamp never decreases.
C20_LastFetchMonotonic == [][cache'.last_fetch >= cache.last_fetch]_vars

\* C18: without an override, profile resolution fails with the error of
\* line 123 (NoProfilesReturned) on an empty answer, and with the error of
\* line 140 (ProfileNotMatched) when no profile is both active and
\* registered under exactly the username; otherwise it takes the matched
\* profile (the first, should there be several) and returns its id, else
\* its study.assignedProfileId, and fails with ProfileNotMatched when that
\* profile has neither.
C18_ProfileSelected ==
    (returned.called /\ STUDY_PROFILE_ID = NoStr) =>
        LET matched == {i \in DOMAIN upstream :
                           /\ upstream[i].activeProfile
                           /\ upstream[i].study.traineeRegistrationNumber = Username}
        IN  IF upstream = << >>
            THEN returned.raised = "No profiles found in academic-review response"
            ELSE IF matched = {}
            THEN returned.raised = "Study profile ID not found in academic-review response"
            ELSE LET p == upstream[CHOOSE i \in matched : \A j \in matched : i <= j]
                 IN  IF p.id # NoStr
                     THEN returned.raised = NoStr /\ returned.value = p.id
                     ELSE IF p.study.assignedProfileId # NoStr
                     THEN returned.raised = NoStr
                          /\ returned.value = p.study.assignedProfileId
                     ELSE returned.raised
                              = "Study profile ID not found in academic-review response"

====
